---- MODULE Spec2Model ----
(***************************************************************************)
(* A model of youtube2mp3.py: the command line front end (main,            *)
(* YouTubeToMP3), the single download (YouTubeDownloader.download with    *)
(* its metadata post-processing) and the queue-fed worker pool            *)
(* (ThreadedDownloader).                                                   *)
(*                                                                         *)
(* Thread 0 is the main thread, threads 1..MaxThreads are pool workers.   *)
(* The external libraries (yt_dlp, mutagen, inquirer, the file system)    *)
(* are the environment: each call into them is a step whose outcome is    *)
(* chosen among the outcomes the calling code distinguishes.              *)
(***************************************************************************)
EXTENDS Integers, Sequences, FiniteSets, TLC

\* Largest --threads value explored (the pool has at most this many workers).
MaxThreads == 2
\* Largest number of distinct qualifying URLs a batch file holds.
MaxUrls == 2

Threads == 0..MaxThreads
Workers == 1..MaxThreads
Urls == 1..MaxUrls
\* --threads is parsed with type=int: zero and negative values are accepted.
ThreadArgs == (0 - 1)..MaxThreads

VARIABLES
  argv,             \* the command line as given (raw values, before any check)
  parsed,           \* "pending", "ok" or "error": outcome of parser.parse_args()
  mpc,              \* the main thread's position
  output_dir,       \* TRUE once the program has created (or mkdir-ed) the output directory
  searched,         \* TRUE once YouTubeSearcher.search has been called
  extracted,        \* TRUE once URLExtractor.extract_from_file has returned
  urls,             \* the set extract_from_file returned / the single URL to process
  remaining,        \* sequential loop: URLs of the set not yet iterated
  downloaders,      \* number of YouTubeDownloader objects constructed
  pool,             \* TRUE once a ThreadedDownloader has been constructed
  url_queue,        \* ThreadedDownloader.url_queue (queue.Queue), a FIFO
  unfinished_tasks, \* queue.Queue's count of put() not yet matched by task_done()
  spawned,          \* number of worker threads start() has started
  joined,           \* number of worker threads start() has joined
  wpc,              \* each worker's position in _worker
  dl,               \* each thread's position inside YouTubeDownloader.download
  cur,              \* the URL each thread's download call is processing (0: none)
  calls,            \* per URL: number of download(url) calls made
  outcome,          \* per URL: what the extraction step did
  ret,              \* per URL: what download(url) returned
  mp3,              \* per URL: what mp3_file.exists() found in _process_metadata
  tag_writes,       \* per URL: number of MetadataManager tag-writing calls made
  log,              \* kinds of messages logged or printed so far
  interrupted,      \* TRUE once a KeyboardInterrupt has been delivered
  exited,           \* TRUE once the process has terminated
  exit_status       \* the process exit status (meaningful once exited)

vars == <<argv, parsed, mpc, output_dir, searched, extracted, urls, remaining,
          downloaders, pool, url_queue, unfinished_tasks, spawned, joined,
          wpc, dl, cur, calls, outcome, ret, mp3, tag_writes, log,
          interrupted, exited, exit_status>>

mainVars == <<argv, parsed, mpc, output_dir, searched, extracted, urls,
              remaining, pool, spawned, joined>>
poolVars == <<url_queue, unfinished_tasks, wpc>>
exitVars == <<interrupted, exited, exit_status>>
metaVars == <<mp3, tag_writes>>

-----------------------------------------------------------------------------
(* Command lines *)

UrlInputs == [wellformed : BOOLEAN, youtu : BOOLEAN]
FileInputs == [is_file : BOOLEAN, readable : BOOLEAN]
DirInputs == [given : BOOLEAN, is_dir : BOOLEAN, writable : BOOLEAN]
RateInputs == [given : BOOLEAN, is_int : BOOLEAN, val : {0 - 1, 0, 1}]

\* One of -u / -f / -s is required (mutually exclusive group); the slots of
\* the two inputs not given are unused and held at a fixed value.
CommandLines ==
  { a \in [mode : {"url", "file", "search"}, url : UrlInputs, file : FileInputs,
           threads : ThreadArgs, output : DirInputs, rate : RateInputs,
           no_metadata : BOOLEAN] :
      /\ (a.mode # "url" => a.url = [wellformed |-> TRUE, youtu |-> TRUE])
      /\ (a.mode # "file" => a.file = [is_file |-> TRUE, readable |-> TRUE])
      /\ (~a.output.given => a.output.is_dir /\ a.output.writable)
      /\ (~a.rate.given => a.rate.is_int /\ a.rate.val = 1)
      /\ (~a.rate.is_int => a.rate.val = 0) }

NoArgs ==
  [mode |-> "url", url |-> [wellformed |-> TRUE, youtu |-> TRUE],
   file |-> [is_file |-> TRUE, readable |-> TRUE], threads |-> 1,
   output |-> [given |-> FALSE, is_dir |-> TRUE, writable |-> TRUE],
   rate |-> [given |-> FALSE, is_int |-> TRUE, val |-> 1],
   no_metadata |-> FALSE]

\* ArgumentValidator: TRUE when the value is returned, FALSE when
\* ArgumentTypeError is raised.
validate_url(u) == u.wellformed /\ u.youtu
validate_file(f) == f.is_file /\ f.readable
validate_directory(d) == d.is_dir /\ d.writable
\* Mutant: the rate test written "< 0", letting a zero rate through.
validate_rate_limit_nonneg(r) == r.is_int /\ r.val >= 0
validate_rate_limit(r) == r.is_int /\ r.val > 0

\* argparse applies each type= callable to the value supplied for its option.
ChecksPass(a) ==
  /\ (a.mode = "url" => validate_url(a.url))
  /\ (a.mode = "file" => validate_file(a.file))
  /\ (a.output.given => validate_directory(a.output))
  /\ (a.rate.given => validate_rate_limit(a.rate))

add_metadata == ~argv.no_metadata

-----------------------------------------------------------------------------
Init ==
  /\ argv = NoArgs
  /\ parsed = "pending"
  /\ mpc = "parse"
  /\ output_dir = FALSE
  /\ searched = FALSE
  /\ extracted = FALSE
  /\ urls = {}
  /\ remaining = {}
  /\ downloaders = 0
  /\ pool = FALSE
  /\ url_queue = <<>>
  /\ unfinished_tasks = 0
  /\ spawned = 0
  /\ joined = 0
  /\ wpc = [w \in Workers |-> "notstarted"]
  /\ dl = [t \in Threads |-> "idle"]
  /\ cur = [t \in Threads |-> 0]
  /\ calls = [u \in Urls |-> 0]
  /\ outcome = [u \in Urls |-> "none"]
  /\ ret = [u \in Urls |-> "none"]
  /\ mp3 = [u \in Urls |-> "unknown"]
  /\ tag_writes = [u \in Urls |-> 0]
  /\ log = {}
  /\ interrupted = FALSE
  /\ exited = FALSE
  /\ exit_status = 0

\* The process ends with this status.
Exit(status) ==
  /\ exited' = TRUE
  /\ exit_status' = status

-----------------------------------------------------------------------------
(* main, YouTubeToMP3.__init__ and run *)

\* YouTubeToMP3.__init__ -> _parse_arguments: parser.parse_args() runs every
\* type= check; a failed one makes argparse call parser.error, which raises
\* SystemExit(2) (not an Exception, so main's handlers let it through).
ParseArguments ==
  /\ ~exited /\ mpc = "parse"
  /\ \E a \in CommandLines :
       /\ argv' = a
       /\ IF ChecksPass(a)
          THEN /\ parsed' = "ok"
               /\ mpc' = "run"
               /\ UNCHANGED <<exited, exit_status>>
          ELSE /\ parsed' = "error"
               /\ mpc' = "parse"
               /\ Exit(2)
  /\ UNCHANGED <<output_dir, searched, extracted, urls, remaining, downloaders,
                 pool, spawned, joined, poolVars, dl, cur, calls, outcome, ret,
                 log, interrupted>>
  /\ UNCHANGED metaVars

\* run: _get_output_directory (creates the timestamped directory when no
\* --output was given), then the dispatch on the input type.
GetOutputDirectory ==
  /\ ~exited /\ mpc = "run"
  /\ output_dir' = (output_dir \/ ~argv.output.given)
  /\ mpc' = CASE argv.mode = "search" -> "search"
              [] argv.mode = "file" -> "process_file"
              [] OTHER -> "process_url"
  /\ urls' = IF argv.mode = "url" THEN {1} ELSE urls
  /\ UNCHANGED <<argv, parsed, searched, extracted, remaining, downloaders,
                 pool, spawned, joined, poolVars, dl, cur, calls, outcome, ret,
                 log, exitVars>>
  /\ UNCHANGED metaVars

\* _handle_search: no result (an error is logged), the user quits the
\* picker, or a URL is picked; with None run returns without a download.
HandleSearch ==
  /\ ~exited /\ mpc = "search"
  /\ searched' = TRUE
  /\ \E r \in {"no_results", "quit", "picked"} :
       /\ urls' = IF r = "picked" THEN {1} ELSE {}
       /\ mpc' = IF r = "picked" THEN "process_url" ELSE "finish"
       /\ log' = IF r = "no_results" THEN log \cup {"NoSearchResults"} ELSE log
  /\ UNCHANGED <<argv, parsed, output_dir, extracted, remaining, downloaders,
                 pool, spawned, joined, poolVars, dl, cur, calls, outcome, ret,
                 exitVars>>
  /\ UNCHANGED metaVars

-----------------------------------------------------------------------------
(* YouTubeDownloader.download, on thread t *)

\* Entering download(url): the options are built, "Processing URL" is logged
\* and ydl.extract_info(url, download=True) is in flight.
DownloadCall(t, u) ==
  /\ dl' = [dl EXCEPT ![t] = "extract"]
  /\ cur' = [cur EXCEPT ![t] = u]
  /\ calls' = [calls EXCEPT ![u] = @ + 1]

\* download returns r to its caller. The main thread resumes at mpc; a pool
\* worker calls url_queue.task_done() and goes back to its loop test.
DownloadReturn(t, r) ==
  /\ ret' = [ret EXCEPT ![cur[t]] = r]
  /\ dl' = [dl EXCEPT ![t] = "idle"]
  /\ cur' = [cur EXCEPT ![t] = 0]
  /\ IF t = 0
     THEN UNCHANGED <<wpc, unfinished_tasks>>
     ELSE /\ wpc' = [wpc EXCEPT ![t] = "check"]
          /\ unfinished_tasks' = unfinished_tasks - 1
  /\ UNCHANGED <<exited, exit_status>>

\* Mutant: download without the except clause. The DownloadError leaves
\* download: on the main thread it reaches main's "except Exception" (exit 1),
\* on a worker it ends the thread.
DownloadErrorUnhandled(t) ==
  /\ log' = IF t = 0 THEN log \cup {"Error"} ELSE log
  /\ dl' = [dl EXCEPT ![t] = "idle"]
  /\ cur' = [cur EXCEPT ![t] = 0]
  /\ ret' = ret
  /\ IF t = 0
     THEN /\ Exit(1)
          /\ UNCHANGED <<wpc, unfinished_tasks>>
     ELSE /\ wpc' = [wpc EXCEPT ![t] = "dead"]
          /\ UNCHANGED <<unfinished_tasks, exited, exit_status>>

\* except yt_dlp.utils.DownloadError: the error is logged, download returns False.
DownloadErrorHandler(t) ==
  /\ log' = log \cup {"DownloadFailed"}
  /\ DownloadReturn(t, "false")

\* _process_metadata up to the first tag write, entered with a truthy info_dict.
ProcessMetadata(t) ==
  IF ~add_metadata
  THEN /\ DownloadReturn(t, "true")
       /\ log' = log
       /\ UNCHANGED metaVars
  ELSE \E mp3_exists \in BOOLEAN :
         IF ~mp3_exists
         THEN /\ mp3' = [mp3 EXCEPT ![cur[t]] = "missing"]
              /\ log' = log \cup {"Mp3NotFound"}
              /\ DownloadReturn(t, "true")
              /\ UNCHANGED tag_writes
         ELSE \* MetadataManager.add_metadata: MP3(mp3_file) opens the file,
              \* or raises and the error is printed (except Exception).
              \E opened \in BOOLEAN :
                /\ mp3' = [mp3 EXCEPT ![cur[t]] = "present"]
                /\ tag_writes' = [tag_writes EXCEPT ![cur[t]] = @ + 1]
                /\ dl' = [dl EXCEPT ![t] = IF opened THEN "add_tags" ELSE "thumbnail"]
                /\ log' = IF opened THEN log ELSE log \cup {"MetadataError"}
                /\ UNCHANGED <<cur, ret, wpc, unfinished_tasks, exited, exit_status>>

\* ydl.extract_info returns an info dict, returns None, or raises DownloadError.
ExtractInfo(t) ==
  /\ ~exited /\ dl[t] = "extract"
  /\ \E o \in {"info", "no_info", "DownloadError"} :
       /\ outcome' = [outcome EXCEPT ![cur[t]] = o]
       /\ CASE o = "DownloadError" -> DownloadErrorHandler(t) /\ UNCHANGED metaVars
            [] o = "no_info" ->
                 DownloadReturn(t, "true") /\ log' = log /\ UNCHANGED metaVars
            [] OTHER -> ProcessMetadata(t)
  /\ UNCHANGED <<mainVars, downloaders, url_queue, calls, interrupted>>

\* The external extraction never returns: no timeout is set on a download.
ExtractStall(t) ==
  /\ ~exited /\ dl[t] = "extract"
  /\ dl' = [dl EXCEPT ![t] = "stalled"]
  /\ UNCHANGED <<mainVars, downloaders, poolVars, cur, calls, outcome, ret, log,
                 exitVars>>
  /\ UNCHANGED metaVars

\* MetadataManager.add_metadata from audio.add_tags() on: add_tags returns or
\* raises (bare except: pass), then the frames are added and saved, or that
\* raises and the error is printed.
AddTags(t) ==
  /\ ~exited /\ dl[t] = "add_tags"
  /\ \E saved \in BOOLEAN :
       log' = IF saved THEN log ELSE log \cup {"MetadataError"}
  /\ dl' = [dl EXCEPT ![t] = "thumbnail"]
  /\ UNCHANGED <<mainVars, downloaders, poolVars, cur, calls, outcome, ret,
                 exitVars>>
  /\ UNCHANGED metaVars

\* Mutant: _process_metadata without its try/except. The exception leaves
\* _process_metadata and download (it is no DownloadError): on the main thread
\* it reaches main's "except Exception" (exit 1), on a worker it ends the thread.
MetadataExceptionUnhandled(t) ==
  /\ log' = IF t = 0 THEN log \cup {"Error"} ELSE log
  /\ dl' = [dl EXCEPT ![t] = "idle"]
  /\ cur' = [cur EXCEPT ![t] = 0]
  /\ ret' = ret
  /\ IF t = 0
     THEN /\ Exit(1)
          /\ UNCHANGED <<wpc, unfinished_tasks>>
     ELSE /\ wpc' = [wpc EXCEPT ![t] = "dead"]
          /\ UNCHANGED <<unfinished_tasks, exited, exit_status>>

\* _process_metadata's "except Exception": the error is logged,
\* _process_metadata returns and download returns True.
MetadataExceptionHandler(t) ==
  /\ log' = log \cup {"MetadataProcessingError"}
  /\ DownloadReturn(t, "true")

\* _process_metadata after add_metadata: the sidecar thumbnail is absent, or
\* reading it raises (except Exception: logged), or it is read and
\* MetadataManager.add_thumbnail opens the MP3 (or fails to, printing).
Thumbnail(t) ==
  /\ ~exited /\ dl[t] = "thumbnail"
  /\ \E th \in {"absent", "unreadable", "open_failed", "opened"} :
       CASE th = "absent" ->
              /\ log' = log \cup {"AddedMetadata"}
              /\ DownloadReturn(t, "true")
              /\ UNCHANGED tag_writes
         [] th = "unreadable" ->
              /\ MetadataExceptionHandler(t)
              /\ UNCHANGED tag_writes
         [] th = "open_failed" ->
              /\ tag_writes' = [tag_writes EXCEPT ![cur[t]] = @ + 1]
              /\ log' = log \cup {"MetadataError", "AddedMetadata"}
              /\ DownloadReturn(t, "true")
         [] OTHER ->
              /\ tag_writes' = [tag_writes EXCEPT ![cur[t]] = @ + 1]
              /\ dl' = [dl EXCEPT ![t] = "thumb_add_tags"]
              /\ UNCHANGED <<log, cur, ret, wpc, unfinished_tasks, exited, exit_status>>
  /\ UNCHANGED <<mainVars, downloaders, url_queue, calls, outcome, mp3, interrupted>>

\* MetadataManager.add_thumbnail from audio.add_tags() on, then the sidecar
\* files are removed, "Added metadata" is logged and download returns True.
ThumbAddTags(t) ==
  /\ ~exited /\ dl[t] = "thumb_add_tags"
  /\ \E saved \in BOOLEAN :
       log' = IF saved THEN log \cup {"AddedMetadata"}
              ELSE log \cup {"MetadataError", "AddedMetadata"}
  /\ DownloadReturn(t, "true")
  /\ UNCHANGED <<mainVars, downloaders, url_queue, calls, outcome, interrupted>>
  /\ UNCHANGED metaVars

-----------------------------------------------------------------------------
(* _process_url and _process_file on the main thread *)

\* _process_url: a YouTubeDownloader is constructed (its __init__ makes the
\* output directory) and download(url) is called.
ProcessUrl ==
  /\ ~exited /\ mpc = "process_url" /\ dl[0] = "idle"
  /\ downloaders' = downloaders + 1
  /\ output_dir' = TRUE
  /\ DownloadCall(0, 1)
  /\ mpc' = "finish"
  /\ UNCHANGED <<argv, parsed, searched, extracted, urls, remaining, pool,
                 spawned, joined, poolVars, outcome, ret, log, exitVars>>
  /\ UNCHANGED metaVars

\* The orders list(urls) can give the elements of the set S.
Orders(S) ==
  { q \in [1..Cardinality(S) -> S] : \A i, j \in 1..Cardinality(S) : q[i] = q[j] => i = j }

\* What _process_file leaves alone when it starts no download.
NoDownloadSetup ==
  UNCHANGED <<remaining, downloaders, pool, url_queue, unfinished_tasks, output_dir>>

\* open/read raises (an OSError, a UnicodeDecodeError): the exception reaches
\* main's "except Exception", which prints it and calls sys.exit(1).
ReadError ==
  /\ log' = log \cup {"Error"}
  /\ Exit(1)
  /\ mpc' = mpc
  /\ NoDownloadSetup

\* Mutant: the empty set treated as a fatal error, sys.exit(1) after the log line.
NoUrlsFoundExits ==
  /\ log' = log \cup {"NoUrls"}
  /\ Exit(1)
  /\ mpc' = mpc
  /\ NoDownloadSetup

\* Mutant: the "return" after the log line is missing and _process_file goes
\* on to choose a path over the empty set.
NoUrlsFoundFallsThrough ==
  /\ log' = log \cup {"NoUrls"}
  /\ UNCHANGED <<exited, exit_status>>
  /\ IF argv.threads > 1
     THEN /\ pool' = TRUE
          /\ url_queue' = <<>>
          /\ unfinished_tasks' = 0
          /\ mpc' = "start"
          /\ UNCHANGED <<remaining, downloaders, output_dir>>
     ELSE /\ downloaders' = downloaders + 1
          /\ output_dir' = TRUE
          /\ remaining' = {}
          /\ mpc' = "loop"
          /\ UNCHANGED <<pool, url_queue, unfinished_tasks>>

\* if not urls: the error is logged and _process_file returns.
NoUrlsFound ==
  /\ log' = log \cup {"NoUrls"}
  /\ mpc' = "finish"
  /\ UNCHANGED <<exited, exit_status>>
  /\ NoDownloadSetup

\* self.args.threads > 1: a ThreadedDownloader is constructed over list(urls);
\* its __init__ puts every URL on url_queue; start() is called next.
ThreadedPath(found) ==
  /\ pool' = TRUE
  /\ url_queue' \in Orders(found)
  /\ unfinished_tasks' = Cardinality(found)
  /\ mpc' = "start"
  /\ UNCHANGED <<remaining, downloaders, output_dir, log, exited, exit_status>>

\* else: one YouTubeDownloader is constructed for the loop over the set.
SequentialPath(found) ==
  /\ downloaders' = downloaders + 1
  /\ output_dir' = TRUE
  /\ remaining' = found
  /\ mpc' = "loop"
  /\ UNCHANGED <<pool, url_queue, unfinished_tasks, log, exited, exit_status>>

\* _process_file up to the choice of path. The file holds n distinct
\* qualifying URLs, named 1..n.
ProcessFile ==
  /\ ~exited /\ mpc = "process_file"
  /\ \E n \in 0..MaxUrls, decoded \in BOOLEAN :
       IF ~decoded
       THEN /\ ReadError
            /\ UNCHANGED <<extracted, urls>>
       ELSE /\ extracted' = TRUE
            /\ urls' = 1..n
            /\ IF n = 0 THEN NoUrlsFound
               ELSE IF argv.threads > 1 THEN ThreadedPath(1..n)
               ELSE SequentialPath(1..n)
  /\ UNCHANGED <<argv, parsed, searched, spawned, joined, wpc, dl, cur, calls,
                 outcome, ret, interrupted>>
  /\ UNCHANGED metaVars

\* for url in urls: downloader.download(url), the set iterated in any order;
\* the loop ends when the set is exhausted.
SequentialLoop ==
  /\ ~exited /\ mpc = "loop" /\ dl[0] = "idle"
  /\ IF remaining = {}
     THEN /\ mpc' = "finish"
          /\ UNCHANGED <<remaining, dl, cur, calls>>
     ELSE \E u \in remaining :
            /\ remaining' = remaining \ {u}
            /\ DownloadCall(0, u)
            /\ mpc' = mpc
  /\ UNCHANGED <<argv, parsed, output_dir, searched, extracted, urls,
                 downloaders, pool, spawned, joined, poolVars, outcome, ret, log,
                 exitVars>>
  /\ UNCHANGED metaVars

\* run has returned to main, which returns: the interpreter exits with status
\* 0, ending the daemon threads with it.
MainReturn ==
  /\ ~exited /\ mpc = "finish" /\ dl[0] = "idle"
  /\ Exit(0)
  /\ UNCHANGED <<mainVars, downloaders, poolVars, dl, cur, calls, outcome, ret,
                 log, interrupted>>
  /\ UNCHANGED metaVars

-----------------------------------------------------------------------------
(* ThreadedDownloader.start on the main thread *)

\* Mutant: the pool sized by the work, range(min(num_threads, len(urls))).
StartThreadPerUrl ==
  LET size == IF Cardinality(urls) < argv.threads THEN Cardinality(urls)
              ELSE argv.threads
  IN /\ ~exited /\ mpc = "start" /\ spawned < size
     /\ spawned' = spawned + 1
     /\ wpc' = [wpc EXCEPT ![spawned + 1] = "check"]
     /\ downloaders' = downloaders + 1
     /\ output_dir' = TRUE
     /\ mpc' = IF spawned + 1 = size THEN "join" ELSE "start"
     /\ UNCHANGED <<argv, parsed, searched, extracted, urls, remaining, pool,
                    joined, url_queue, unfinished_tasks, dl, cur, calls, outcome,
                    ret, log, exitVars>>
     /\ UNCHANGED metaVars

\* The start loop: one more daemon thread running _worker is created and
\* started; after the last one the main thread goes on to join them. The
\* thread's first act, building its own YouTubeDownloader (whose __init__
\* mkdir-s the output directory), touches nothing another thread reads and
\* is part of this step: the worker is next at its loop test.
StartThread ==
  /\ ~exited /\ mpc = "start" /\ spawned < argv.threads
  /\ spawned' = spawned + 1
  /\ wpc' = [wpc EXCEPT ![spawned + 1] = "check"]
  /\ downloaders' = downloaders + 1
  /\ output_dir' = TRUE
  /\ mpc' = IF spawned + 1 = argv.threads THEN "join" ELSE "start"
  /\ UNCHANGED <<argv, parsed, searched, extracted, urls, remaining, pool,
                 joined, url_queue, unfinished_tasks, dl, cur, calls, outcome,
                 ret, log, exitVars>>
  /\ UNCHANGED metaVars

\* Mutant: start without waiting in join: the joins return whether or not the
\* thread has ended.
JoinThreadNoWait ==
  /\ ~exited /\ mpc = "join" /\ joined < argv.threads
  /\ joined' = joined + 1
  /\ IF joined + 1 = argv.threads
     THEN /\ log' = log \cup {"AllCompleted"}
          /\ mpc' = "finish"
     ELSE /\ log' = log
          /\ mpc' = "join"
  /\ UNCHANGED <<argv, parsed, output_dir, searched, extracted, urls, remaining,
                 downloaders, pool, spawned, poolVars, dl, cur, calls, outcome,
                 ret, exitVars>>
  /\ UNCHANGED metaVars

\* The join loop: thread.join() on the next thread returns once that worker
\* has returned from _worker; after the last join "All downloads completed"
\* is logged and start returns.
JoinThread ==
  /\ ~exited /\ mpc = "join" /\ joined < argv.threads
  /\ wpc[joined + 1] = "done"
  /\ joined' = joined + 1
  /\ IF joined + 1 = argv.threads
     THEN /\ log' = log \cup {"AllCompleted"}
          /\ mpc' = "finish"
     ELSE /\ log' = log
          /\ mpc' = "join"
  /\ UNCHANGED <<argv, parsed, output_dir, searched, extracted, urls, remaining,
                 downloaders, pool, spawned, poolVars, dl, cur, calls, outcome,
                 ret, exitVars>>
  /\ UNCHANGED metaVars

-----------------------------------------------------------------------------
(* ThreadedDownloader._worker on worker thread w *)

\* while not self.url_queue.empty(): the test alone; the worker returns when
\* it finds the queue empty.
WorkerCheck(w) ==
  /\ ~exited /\ wpc[w] = "check"
  /\ wpc' = [wpc EXCEPT ![w] = IF url_queue = <<>> THEN "done" ELSE "get"]
  /\ UNCHANGED <<mainVars, downloaders, url_queue, unfinished_tasks, dl, cur,
                 calls, outcome, ret, log, exitVars>>
  /\ UNCHANGED metaVars

\* Mutant: the head is read but not removed (url_queue.queue[0] for get()).
WorkerGetNoPop(w) ==
  /\ ~exited /\ wpc[w] = "get"
  /\ IF url_queue # <<>>
     THEN /\ url_queue' = url_queue
          /\ DownloadCall(w, Head(url_queue))
          /\ wpc' = [wpc EXCEPT ![w] = "download"]
     ELSE /\ wpc' = [wpc EXCEPT ![w] = "blocked"]
          /\ UNCHANGED <<url_queue, dl, cur, calls>>
  /\ UNCHANGED <<mainVars, downloaders, unfinished_tasks, outcome, ret, log,
                 exitVars>>
  /\ UNCHANGED metaVars

\* Mutant: one lock held from the get to the end of the download, so a worker
\* claims only while no other worker is inside download.
WorkerGetSerialized(w) ==
  /\ ~exited /\ wpc[w] = "get"
  /\ \A o \in Workers \ {w} : dl[o] = "idle"
  /\ IF url_queue # <<>>
     THEN /\ url_queue' = Tail(url_queue)
          /\ DownloadCall(w, Head(url_queue))
          /\ wpc' = [wpc EXCEPT ![w] = "download"]
     ELSE /\ wpc' = [wpc EXCEPT ![w] = "blocked"]
          /\ UNCHANGED <<url_queue, dl, cur, calls>>
  /\ UNCHANGED <<mainVars, downloaders, unfinished_tasks, outcome, ret, log,
                 exitVars>>
  /\ UNCHANGED metaVars

\* url = self.url_queue.get(): a blocking get. With an item present the head
\* is removed under the queue's lock and passed to downloader.download; with
\* none the thread waits for a put, and nothing puts after __init__.
WorkerGet(w) ==
  /\ ~exited /\ wpc[w] = "get"
  /\ IF url_queue # <<>>
     THEN /\ url_queue' = Tail(url_queue)
          /\ DownloadCall(w, Head(url_queue))
          /\ wpc' = [wpc EXCEPT ![w] = "download"]
     ELSE /\ wpc' = [wpc EXCEPT ![w] = "blocked"]
          /\ UNCHANGED <<url_queue, dl, cur, calls>>
  /\ UNCHANGED <<mainVars, downloaders, unfinished_tasks, outcome, ret, log,
                 exitVars>>
  /\ UNCHANGED metaVars

-----------------------------------------------------------------------------
(* KeyboardInterrupt *)

\* The bare "except:" around audio.add_tags() in MetadataManager.
InBareExcept(t) == dl[t] \in {"add_tags", "thumb_add_tags"}

\* Python raises KeyboardInterrupt in the main thread, at the point it has
\* reached. Inside the bare except it is caught and dropped; anywhere else it
\* reaches main's handler, which prints the notice and calls sys.exit(1):
\* the workers are daemon threads and end with the process.
Interrupt ==
  /\ ~exited
  /\ interrupted' = TRUE
  /\ IF InBareExcept(0)
     THEN UNCHANGED <<log, exited, exit_status>>
     ELSE /\ log' = log \cup {"Interrupted"}
          /\ Exit(1)
  /\ UNCHANGED <<mainVars, downloaders, poolVars, dl, cur, calls, outcome, ret>>
  /\ UNCHANGED metaVars

-----------------------------------------------------------------------------
MainStep ==
  \/ ParseArguments
  \/ GetOutputDirectory
  \/ HandleSearch
  \/ ProcessUrl
  \/ ProcessFile
  \/ SequentialLoop
  \/ StartThread
  \/ JoinThread
  \/ MainReturn

\* A step of download on thread t that returns control to the program.
DownloadStep(t) ==
  \/ ExtractInfo(t)
  \/ AddTags(t)
  \/ Thumbnail(t)
  \/ ThumbAddTags(t)

WorkerStep(w) ==
  \/ WorkerCheck(w)
  \/ WorkerGet(w)
  \/ DownloadStep(w)

\* Every step the program itself takes.
ProgramStep ==
  \/ MainStep
  \/ DownloadStep(0)
  \/ \E w \in Workers : WorkerStep(w)

Next ==
  \/ ProgramStep
  \/ \E t \in Threads : ExtractStall(t)
  \/ Interrupt

Spec == Init /\ [][Next]_vars

\* The OS schedules every runnable thread, and a call that returns does so:
\* each thread's own steps are weakly fair. A stall and an interrupt are the
\* environment's to take or not.
FairSpec ==
  /\ Spec
  /\ WF_vars(MainStep \/ DownloadStep(0))
  /\ \A w \in Workers : WF_vars(WorkerStep(w))

-----------------------------------------------------------------------------
(* Properties *)

InQueue(u) == \E i \in 1..Len(url_queue) : url_queue[i] = u
PoolWorkers == 1..argv.threads
AllWorkersReturned ==
  pool /\ spawned = argv.threads /\ \A w \in PoolWorkers : wpc[w] = "done"
NoStall == \A t \in Threads : dl[t] # "stalled"

\* C1: with a ThreadedDownloader over any queue and any number of workers,
\* in every interleaving, no URL is passed to download twice, no two workers
\* hold the same URL, a URL is either still queued or has been passed to
\* download once, and once every worker has returned every enqueued URL has
\* been passed to download exactly once.
C1_EachUrlExactlyOnce ==
  pool =>
    /\ \A u \in Urls : calls[u] <= 1
    /\ \A w1, w2 \in Workers : (w1 # w2 /\ cur[w1] # 0) => cur[w1] # cur[w2]
    /\ \A u \in urls : InQueue(u) <=> calls[u] = 0
    /\ AllWorkersReturned => \A u \in urls : calls[u] = 1

\* C1 witness: a full pool over a full queue in which every worker has returned.
C1_Witness ==
  /\ AllWorkersReturned
  /\ argv.threads = MaxThreads
  /\ Cardinality(urls) = MaxUrls
  /\ \A u \in urls : calls[u] = 1

\* C2: as long as every download call returns, a worker whose claim attempt
\* meets an empty queue does not wait: no worker is ever parked in get().
C2_NoWorkerWaits ==
  NoStall => \A w \in Workers : wpc[w] # "blocked"

\* C3: when the extraction step raises DownloadError, download returns false
\* and the caller carries on (the sequential loop keeps its remaining URLs and
\* its place, the pool worker is back at its loop test, the process is still
\* running); a sequential batch that ran to its end has called download for
\* every URL of the set.
C3_DownloadErrorContinues ==
  /\ [][\A t \in Threads :
          (dl[t] = "extract" /\ dl'[t] = "idle"
             /\ outcome'[cur[t]] = "DownloadError") =>
            /\ ret'[cur[t]] = "false"
            /\ ~exited'
            /\ (t = 0 => mpc' = mpc /\ remaining' = remaining)
            /\ (t # 0 => wpc'[t] = "check")]_vars
  /\ []((argv.mode = "file" /\ extracted /\ ~pool /\ mpc = "finish")
          => \A u \in urls : calls[u] = 1 /\ ret[u] # "none")

\* C3 witness: a sequential batch that ran to its end although every one of
\* its downloads failed.
C3_Witness ==
  /\ argv.mode = "file" /\ ~pool /\ mpc = "finish"
  /\ Cardinality(urls) = MaxUrls
  /\ \A u \in urls : outcome[u] = "DownloadError" /\ ret[u] = "false"

\* The runs C4 speaks of: no interrupt, no setup error, no download that never returns.
OnlyDownloadErrors ==
  ~interrupted /\ parsed # "error" /\ "Error" \notin log /\ NoStall

\* C4: in a run whose only failures are download-specific errors, the process
\* ends, and ends with status 0: it has exited with 0, or it can still take a step.
C4_FailuresNeverFatal ==
  OnlyDownloadErrors =>
    /\ exited => exit_status = 0
    /\ ~exited => ENABLED ProgramStep

\* The exit-status half of C4 alone.
C4_ExitStatusHalf ==
  (OnlyDownloadErrors /\ exited) => exit_status = 0

\* C5 as stated: a batch file with no qualifying URL ends the process with a
\* non-zero status.
C5_NoUrlsExitsNonZero ==
  (exited /\ argv.mode = "file" /\ extracted /\ urls = {}) => exit_status # 0

\* C5 amended: a batch file with no qualifying URL is logged and _process_file
\* returns; the process exits with status 0, as on normal completion, unless an
\* interrupt arrives first (status 1).
C5_NoUrlsExitsZero ==
  (exited /\ argv.mode = "file" /\ extracted /\ urls = {}) =>
    /\ "NoUrls" \in log
    /\ exit_status = IF interrupted THEN 1 ELSE 0

\* C5 witness: the process has exited normally on a file without URLs.
C5_Witness ==
  exited /\ argv.mode = "file" /\ extracted /\ urls = {} /\ ~interrupted
    /\ exit_status = 0

\* C6: once extract_from_file has returned the empty set, whatever --threads
\* is, no downloader and no pool exists, no worker was started and download
\* was never called.
C6_EmptySetStops ==
  (argv.mode = "file" /\ extracted /\ urls = {}) =>
    /\ downloaders = 0
    /\ ~pool
    /\ spawned = 0
    /\ \A w \in Workers : wpc[w] = "notstarted"
    /\ \A t \in Threads : dl[t] = "idle"
    /\ \A u \in Urls : calls[u] = 0
    /\ mpc = "finish"

\* C6 witness: the empty set with a pool requested, the run over.
C6_Witness ==
  argv.mode = "file" /\ extracted /\ urls = {} /\ argv.threads = MaxThreads
    /\ exited /\ exit_status = 0

\* The checks C7 lists, on the values supplied.
SuppliedValuesValid(a) ==
  /\ (a.mode = "url" => a.url.wellformed /\ a.url.youtu)
  /\ (a.mode = "file" => a.file.is_file /\ a.file.readable)
  /\ (a.output.given => a.output.is_dir /\ a.output.writable)
  /\ (a.rate.given => a.rate.is_int /\ a.rate.val >= 1)

NothingStarted ==
  /\ ~output_dir /\ ~searched /\ ~extracted
  /\ downloaders = 0 /\ ~pool /\ spawned = 0
  /\ \A u \in Urls : calls[u] = 0

\* C7: every argument check is made by the parse: while the parse is pending
\* nothing has been set up; if a supplied value fails its check the process
\* has exited (status 2) with no output directory, no search, no worker and no
\* download; anything set up implies a finished parse of valid values.
C7_ChecksBeforeWork ==
  /\ parsed = "pending" => NothingStarted
  /\ parsed = "error" => exited /\ exit_status = 2 /\ NothingStarted
  /\ (parsed # "pending" /\ ~SuppliedValuesValid(argv)) => parsed = "error"
  /\ ~NothingStarted => parsed = "ok" /\ SuppliedValuesValid(argv)

\* C7 witness: a non-writable --output directory stopped the run at the parse.
C7_Witness ==
  /\ parsed = "error" /\ exited
  /\ argv.output.given /\ argv.output.is_dir /\ ~argv.output.writable
  /\ argv.mode = "file" /\ validate_file(argv.file)

\* C8: an interrupt, wherever it arrives, prints the notice and ends the
\* process with status 1 at once.
C8_InterruptTerminates ==
  interrupted => exited /\ exit_status = 1 /\ "Interrupted" \in log

\* C8 outside the bare except: an interrupt that arrives while the main
\* thread is anywhere else ends the process at once, workers in flight or not.
C8_OutsideBareExcept ==
  [][(~interrupted /\ interrupted' /\ ~InBareExcept(0)) =>
        exited' /\ exit_status' = 1 /\ "Interrupted" \in log']_vars

AllWorkersStalled == \A w \in PoolWorkers : dl[w] = "stalled"

\* C9: with a pool running, whichever workers are stalled, it is always the
\* case that eventually every URL has left the queue and been passed to
\* download (a URL is claimed once and never returns to the queue), unless the
\* process is ended or every worker of the pool is stalled: a stalled worker
\* holds nothing the others wait for.
C9_OthersProgress ==
  []<>(pool =>
         \/ exited
         \/ AllWorkersStalled
         \/ \A u \in urls : ~InQueue(u) /\ calls[u] = 1)

\* C9 witness: one worker is stalled and the others have emptied a full
\* queue and returned.
C9_Witness ==
  /\ pool /\ Cardinality(urls) = MaxUrls
  /\ \E w \in PoolWorkers :
       /\ dl[w] = "stalled"
       /\ \A o \in PoolWorkers \ {w} : wpc[o] = "done"
  /\ \A u \in urls : calls[u] = 1

\* _process_file has taken its path to the point where every thread it
\* starts has been started.
PathTaken == argv.mode = "file" /\ extracted /\ mpc \in {"loop", "join", "finish"}

\* C10 as stated: N <= 1 gives no pool and no worker; N > 1 gives exactly N
\* started workers whatever the number of URLs.
C10_ThreadsAloneSelect ==
  PathTaken =>
    IF argv.threads <= 1
    THEN ~pool /\ spawned = 0
    ELSE pool /\ spawned = argv.threads

\* C10 amended: in batch mode with N <= 1 there is never a pool or a worker
\* and only the calling thread downloads, one URL at a time; with N > 1 and a
\* non-empty URL set exactly N workers are started (never more, and N from the
\* first join on), whatever the size of the set; with an empty set none is.
C10_ThreadsSelectNonEmpty ==
  argv.mode = "file" =>
    /\ argv.threads <= 1 =>
         /\ ~pool /\ spawned = 0
         /\ \A w \in Workers : wpc[w] = "notstarted" /\ dl[w] = "idle"
         /\ (PathTaken /\ mpc = "finish") => \A u \in urls : calls[u] = 1
    /\ argv.threads > 1 =>
         /\ spawned <= argv.threads
         /\ \A w \in Workers : wpc[w] # "notstarted" <=> w <= spawned
         /\ dl[0] = "idle"
         /\ (PathTaken /\ urls # {}) => pool /\ spawned = argv.threads
         /\ (PathTaken /\ urls = {}) => ~pool /\ spawned = 0

\* C10 witness: more workers than URLs, all started and joined.
C10_Witness ==
  /\ argv.mode = "file" /\ mpc = "finish" /\ pool
  /\ Cardinality(urls) = 1 /\ argv.threads = MaxThreads
  /\ spawned = MaxThreads /\ joined = MaxThreads

MetadataStages == {"add_tags", "thumbnail", "thumb_add_tags"}

\* A step of thread t inside _process_metadata: the extraction hands it an info
\* dict, or one of its stages is left.
MetadataStep(t) ==
  \/ dl[t] = "extract" /\ dl'[t] # "extract" /\ outcome'[cur[t]] = "info"
  \/ dl[t] \in MetadataStages /\ dl'[t] # dl[t]

\* C11, the outcome: a download whose extraction succeeded has returned True
\* whatever the tagging did; a missing MP3 was logged as a warning and the
\* download returned True with no tag-writing call made for that URL, and tag
\* writes are only ever made for an MP3 that was found.
C11_ReturnsTrue ==
  \A u \in Urls :
    /\ (outcome[u] \in {"info", "no_info"} /\ ret[u] # "none") => ret[u] = "true"
    /\ mp3[u] = "missing" =>
         "Mp3NotFound" \in log /\ tag_writes[u] = 0 /\ ret[u] = "true"
    /\ tag_writes[u] > 0 => mp3[u] = "present" /\ add_metadata

\* C11, the steps: no step of _process_metadata ends the process or the
\* thread; each one either stays in the metadata stage or returns True from
\* download to a caller left where it was (the sequential loop with its
\* remaining URLs, the worker back at its queue check with the queue intact).
C11_NothingRaised ==
  \A t \in Threads :
    MetadataStep(t) =>
      /\ ~exited' /\ exit_status' = exit_status
      /\ \/ dl'[t] \in MetadataStages
         \/ dl'[t] = "idle" /\ ret'[cur[t]] = "true"
      /\ t = 0 => mpc' = mpc /\ remaining' = remaining
      /\ t # 0 => /\ wpc'[t] = (IF dl'[t] = "idle" THEN "check" ELSE "download")
                  /\ url_queue' = url_queue

\* C11: metadata post-processing is best-effort: after a successful extraction
\* download returns True whether tagging succeeds, a tag write or thumbnail
\* embed fails or the MP3 is missing (warning logged, no tag write attempted),
\* and no metadata failure raises out of download or stops later URLs.
C11_MetadataBestEffort == []C11_ReturnsTrue /\ [][C11_NothingRaised]_vars

\* C11 witness: a sequential batch that ran to its end with one URL's MP3
\* missing and the other's tag write and thumbnail both failing, both
\* downloads having returned True.
C11_Witness ==
  /\ argv.mode = "file" /\ ~pool /\ mpc = "finish" /\ ~exited
  /\ {"Mp3NotFound", "MetadataError", "MetadataProcessingError"} \subseteq log
  /\ \E u, v \in urls :
       /\ u # v
       /\ mp3[u] = "missing" /\ tag_writes[u] = 0 /\ ret[u] = "true"
       /\ mp3[v] = "present" /\ tag_writes[v] = 1 /\ ret[v] = "true"

\* C12, the state: once "All downloads completed" is logged, start has joined
\* every one of the N workers, each worker has returned from _worker, and no
\* thread is inside a download call.
C12_AllReturned ==
  "AllCompleted" \in log =>
    /\ AllWorkersReturned /\ joined = argv.threads
    /\ \A t \in Threads : dl[t] = "idle" /\ cur[t] = 0

\* C12, the steps: once the message is logged no download call starts and no
\* worker leaves its returned state; the join of the last worker logs the
\* message whatever the downloads returned.
C12_NothingAfter ==
  /\ "AllCompleted" \in log => calls' = calls /\ dl' = dl /\ wpc' = wpc
  /\ (joined' # joined /\ joined' = argv.threads) => "AllCompleted" \in log'

\* C12: start logs "All downloads completed" only after every one of the N
\* workers has returned; where the message is logged no worker is inside a
\* download and no download call starts afterwards; the message is logged
\* whether or not the downloads succeeded.
C12_CompletedAfterAllWorkers == []C12_AllReturned /\ [][C12_NothingAfter]_vars

\* C12 witness: the message is logged after a full pool worked a full queue
\* and every download returned False.
C12_Witness ==
  /\ "AllCompleted" \in log /\ argv.threads = MaxThreads
  /\ Cardinality(urls) = MaxUrls
  /\ \A u \in urls : calls[u] = 1 /\ ret[u] = "false"

====
